---- MODULE Spec2Model ----
(***************************************************************************)
(* The resumable, checkpointed embedding pipeline of the medical assistant: *)
(* CheckpointManager (app/utils/checkpoint_manager.py), the resumable path *)
(* of EmbeddingsManager and VectorStore (app/utils/embeddings.py,           *)
(* app/utils/vector_store.py) and the resume script                         *)
(* (scripts/resume_embeddings.py).                                          *)
(*                                                                          *)
(* A checkpoint file is absent, partial (opened for writing and not yet     *)
(* completely dumped: not parseable) or holds a JSON record.  The vector    *)
(* index is the bag of the records of the ChromaDB collection.  A value     *)
(* that a Python call returns or an exception that it raises is a record    *)
(* [raised, value].                                                         *)
(***************************************************************************)
EXTENDS Integers, Sequences, FiniteSets, Bags, TLC

VARIABLES
    files,      \* document name -> content of <name>_checkpoint.json
    index,      \* the records of the collection "medical_documents" (a bag)
    run,        \* process -> the locals of its resume_pdf_embeddings / add_documents_resumable call
    now,        \* datetime.now(), as a logical clock that ticks when a run starts
    lastEnd,    \* document name -> the last run on it was interrupted between an index write and the save
    arg,        \* arguments of a function applied on its own (pure-function specifications)
    ret         \* its result

vars == <<files, index, run, now, lastEnd, arg, ret>>

----------------------------------------------------------------------------
(* Bounds *)

MaxChunksA == 3        \* chunks of document "docA"
MaxChunksB == 1        \* chunks of document "docB"
MaxBatchSize == 2      \* batch_size of a direct call ranges over 1..MaxBatchSize
MaxTime == 2           \* the clock ticks as a run starts; runs start while now < MaxTime
MaxLen == 3            \* length of the chunk lists given to get_remaining_chunks on its own
MaxTextLen == 6        \* length of the texts given to chunk_text on its own
MaxChunkSize == 5      \* chunk_size ranges over 2..MaxChunkSize
MaxIterations == 8     \* iterations of the loop of chunk_text followed one at a time
MaxSentences == 3      \* sentences of a PDF; a PDF starts with fewer
MaxFail == 2           \* the embedding that fails in a call on a PDF is none or one of the first MaxFail
MaxCalls == 3          \* calls made on the PDFs; the clock ticks at each
MaxRefChunks == 2      \* chunks of the reference materials
MaxTexts == 10         \* number of texts given to get_embeddings_batch_resumable on its own
MaxStartIndex == 1     \* its start_index ranges over 0..MaxStartIndex

(* Program constants *)

DefaultBatchSize == 5000
HashPrefixLen == 2     \* chunk[:100], scaled to the model's short texts
CallbackEvery == 5     \* (i + 1) % 5 == 0
DefaultChunkSize == 700
DefaultChunkOverlap == 100
UploadChunkSize == 600
UploadChunkOverlap == 150
Scale == 50            \* characters of the PDF that one character of a PDF text of the model stands for

Procs == {1, 2}
Docs == {"docA", "docB"}

Min(a, b) == IF a < b THEN a ELSE b
Range(s) == {s[k] : k \in 1..Len(s)}

\* Python s[i:j] for 0 <= i
Slice(s, i, j) == SubSeq(s, i + 1, Min(j, Len(s)))

Return(v) == [raised |-> FALSE, value |-> v]
Raise == [raised |-> TRUE, value |-> <<>>]

----------------------------------------------------------------------------
(* PDFProcessor.process_pdf: the chunk list (id, text) of a document *)

NumChunks(d) == IF d = "docA" THEN MaxChunksA ELSE MaxChunksB

\* the text of the i-th chunk (0-based) of document d
ChunkText(d, i) == <<d, i, "body">>

\* a hash salted anew at every call, as the built-in hash of Python is per process
ChunkHashSalted(i, chunk) == <<i, Slice(chunk, 0, HashPrefixLen), Len(ret)>>

\* hashlib.md5(f"{i}_{chunk[:100]}"): a function of the position and of the first characters
ChunkHash(i, chunk) == <<i, Slice(chunk, 0, HashPrefixLen)>>

\* an ID made of the hash of the text alone
ChunkIdOfText(i, chunk) == <<"chunk", ChunkHash(0, chunk)>>

\* f"chunk_{i:06d}_{chunk_hash}"
ChunkId(i, chunk) == <<"chunk", i, ChunkHash(i, chunk)>>

ProcessPdf(d) ==
    [k \in 1..NumChunks(d) |-> <<ChunkId(k - 1, ChunkText(d, k - 1)), ChunkText(d, k - 1)>>]

Ids(chunks) == [k \in 1..Len(chunks) |-> chunks[k][1]]
Texts(chunks) == [k \in 1..Len(chunks) |-> chunks[k][2]]

AllIds == UNION {Range(Ids(ProcessPdf(d))) : d \in Docs}

----------------------------------------------------------------------------
(* CheckpointManager *)

Absent == [kind |-> "absent"]
Partial == [kind |-> "partial"]
Json(data) == [kind |-> "json", data |-> data]

Zeroed(document_name) ==
    [processed_chunks |-> 0, total_chunks |-> 0, processed_ids |-> <<>>,
     document_name |-> document_name]

\* the try block of load_checkpoint; ioerr: open() or read() of an existing file fails
LoadCheckpointTry(document_name, file, ioerr) ==
    IF file.kind = "absent" THEN Return(Zeroed(document_name))
    ELSE IF ioerr THEN Raise
    ELSE IF file.kind = "partial" THEN Raise
    ELSE Return(file.data)

\* a load_checkpoint whose except clause raises again, as save_checkpoint's does
LoadCheckpointReraise(document_name, file, ioerr) ==
    LoadCheckpointTry(document_name, file, ioerr)

LoadCheckpoint(document_name, file, ioerr) ==
    LET r == LoadCheckpointTry(document_name, file, ioerr)
    IN  IF r.raised THEN Return(Zeroed(document_name)) ELSE r

\* a filter that keeps the processed chunks
GetRemainingChunksKeepProcessed(all_chunks, checkpoint) ==
    [remaining |-> SelectSeq(all_chunks, LAMBDA chunk : chunk[1] \in Range(checkpoint.processed_ids)),
     checkpoint |-> checkpoint]

\* a filter by position, which skips the first processed_chunks chunks
GetRemainingChunksByCount(all_chunks, checkpoint) ==
    [remaining |-> Slice(all_chunks, Min(checkpoint.processed_chunks, Len(all_chunks)), Len(all_chunks)),
     checkpoint |-> checkpoint]

\* the list returned, and the checkpoint argument as the call leaves it
GetRemainingChunks(all_chunks, checkpoint) ==
    LET processed_ids == Range(checkpoint.processed_ids)
    IN  [remaining |-> SelectSeq(all_chunks, LAMBDA chunk : chunk[1] \notin processed_ids),
         checkpoint |-> checkpoint]

\* progress with last_updated and document_name set, as json.dump writes it
SavedRecord(document_name, progress, time) ==
    [processed_chunks |-> progress.processed_chunks,
     total_chunks |-> progress.total_chunks,
     processed_ids |-> progress.processed_ids,
     document_name |-> document_name,
     last_updated |-> time]

----------------------------------------------------------------------------
(* The ChromaDB collection *)

IndexIds(idx) == {r.id : r \in BagToSet(idx)}

IndexRecord(id, text, source) == [id |-> id, text |-> text, source |-> source]

RECURSIVE AddEach(_, _)
AddEach(idx, recs) ==
    IF recs = <<>> THEN idx
    ELSE AddEach(IF Head(recs).id \in IndexIds(idx) THEN idx
                 ELSE idx (+) SetToBag({Head(recs)}),
                 Tail(recs))

RECURSIVE AppendEach(_, _)
AppendEach(idx, recs) ==
    IF recs = <<>> THEN idx
    ELSE AppendEach(idx (+) SetToBag({Head(recs)}), Tail(recs))

\* an add that stores a record for every ID given, present or not
CollectionAddAlways(idx, recs) == Return(AppendEach(idx, recs))

\* collection.add: duplicate IDs within the call raise; a record whose ID the
\* collection already holds is skipped
CollectionAdd(idx, recs) ==
    IF \E j, k \in 1..Len(recs) : j # k /\ recs[j].id = recs[k].id THEN Raise
    ELSE Return(AddEach(idx, recs))

----------------------------------------------------------------------------
(* The locals of one run.  pc is the position in the code; entry, filesAtStart, *)
(* prev and addCalls record how the run started and the calls it made. *)

IdleRun ==
    [pc |-> "idle", result |-> "none", entry |-> "none", doc |-> "none",
     documents |-> <<>>, source |-> "none", batch_size |-> 0,
     checkpoint |-> Zeroed("none"), processed_count |-> 0,
     remaining_docs |-> <<>>, embeddings |-> <<>>,
     valid |-> <<>>, newly_processed_ids |-> <<>>, i |-> 0,
     progress |-> Zeroed("none"),
     filesAtStart |-> Absent, prev |-> FALSE,
     addCalls |-> <<>>, extract_ok |-> TRUE]

Active(p) == run[p].pc \notin {"idle", "done"}

Finish(r, result) == [r EXCEPT !.pc = "done", !.result = result]

Init ==
    /\ files = [d \in Docs |-> Absent]
    /\ index = EmptyBag
    /\ run = [p \in Procs |-> IdleRun]
    /\ now = 0
    /\ lastEnd = [d \in Docs |-> FALSE]
    /\ arg = <<>>
    /\ ret = <<>>

\* the fields every run starts with
NewRun(d, entry) ==
    [IdleRun EXCEPT !.entry = entry, !.doc = d, !.source = "pdf",
                    !.filesAtStart = files[d], !.prev = lastEnd[d]]

\* a process_pdf that logs the error of the extraction and returns the chunks of
\* the text it has
ProcessPdfTryLog(d, extract_ok) == Return(ProcessPdf(d))

\* process_pdf: extract_text_from_pdf raises again what PyPDF2 raises (pdf_processor.py 29-31)
ProcessPdfTry(d, extract_ok) == IF extract_ok THEN Return(ProcessPdf(d)) ELSE Raise

\* resume_pdf_embeddings up to its call of add_documents_resumable (lines 43-73), and
\* its except clause (99-104) when process_pdf raises: the result "false" is a
\* return False with no call of add_documents_resumable
ResumeWith(p, d, ioerr, extract_ok) ==
    /\ ~Active(p)
    /\ ioerr => files[d].kind = "json"
    /\ LET loaded == LoadCheckpoint(d, files[d], ioerr)
           processed == ProcessPdfTry(d, extract_ok)
           r == [NewRun(d, "resume") EXCEPT !.extract_ok = extract_ok]
       IN  IF loaded.raised
           THEN run' = [run EXCEPT ![p] = Finish(r, "error")]
           ELSE IF processed.raised
           THEN run' = [run EXCEPT ![p] = Finish(r, "false")]
           ELSE LET got == GetRemainingChunks(processed.value, loaded.value)
                IN  IF got.remaining = <<>>
                    THEN run' = [run EXCEPT ![p] =
                                   Finish([r EXCEPT !.checkpoint = got.checkpoint], "ok")]
                    ELSE run' = [run EXCEPT ![p] =
                                   [r EXCEPT !.pc = "adr",
                                             !.documents = got.remaining,
                                             !.batch_size = DefaultBatchSize]]
    /\ lastEnd' = [lastEnd EXCEPT ![d] = IF run'[p].pc = "done" THEN FALSE ELSE @]
    /\ UNCHANGED <<files, index, arg, ret>>

\* a resume run whose PDF is extracted and chunked
ResumeBody(p, d, ioerr) == ResumeWith(p, d, ioerr, TRUE)

\* a resume run whose PDF cannot be read; the clock ticks
ResumeExtractFails(p, d, ioerr) ==
    /\ now < MaxTime
    /\ ResumeWith(p, d, ioerr, FALSE)
    /\ now' = now + 1

\* a resume run starts; the clock ticks
ResumeStart(p, d, ioerr) ==
    /\ now < MaxTime
    /\ ResumeBody(p, d, ioerr)
    /\ now' = now + 1

\* a call of add_documents_resumable with the whole chunk list of the document
DirectStart(p, d, batch_size) ==
    /\ ~Active(p)
    /\ now < MaxTime
    /\ run' = [run EXCEPT ![p] =
                 [NewRun(d, "direct") EXCEPT !.pc = "adr",
                                             !.documents = ProcessPdf(d),
                                             !.batch_size = batch_size]]
    /\ now' = now + 1
    /\ UNCHANGED <<files, index, lastEnd, arg, ret>>

\* an add_documents_resumable without the early return of line 98
NothingToDoNever(chunk_ids) == FALSE

\* vector_store.py 98: if not chunk_ids
NothingToDo(chunk_ids) == chunk_ids = <<>>

\* add_documents_resumable, lines 74-100
AdrLoad(p, ioerr) ==
    /\ run[p].pc = "adr"
    /\ ioerr => files[run[p].doc].kind = "json"
    /\ LET r == run[p]
           loaded == LoadCheckpoint(r.doc, files[r.doc], ioerr)
       IN  IF loaded.raised
           THEN run' = [run EXCEPT ![p] = Finish(r, "error")]
           ELSE LET got == GetRemainingChunks(r.documents, loaded.value)
                    r1 == [r EXCEPT !.checkpoint = got.checkpoint,
                                    !.remaining_docs = got.remaining,
                                    !.processed_count = got.checkpoint.processed_chunks,
                                    !.newly_processed_ids = got.checkpoint.processed_ids]
                IN  IF NothingToDo(Ids(got.remaining))
                    THEN run' = [run EXCEPT ![p] = Finish(r1, "ok")]
                    ELSE run' = [run EXCEPT ![p] = [r1 EXCEPT !.pc = "embed"]]
    /\ lastEnd' = [lastEnd EXCEPT ![run[p].doc] = IF run'[p].pc = "done" THEN FALSE ELSE @]
    /\ UNCHANGED <<files, index, now, arg, ret>>

\* fails[k] says that get_embedding raises on the k-th text.
\* An embedding loop that raises again at the first failure, as get_embeddings_batch does
GetEmbeddingsBatchAbort(texts, fails) ==
    IF \E k \in 1..Len(texts) : fails[k] THEN Raise
    ELSE Return([k \in 1..Len(texts) |-> TRUE])

\* get_embeddings_batch_resumable (embeddings.py 55-77): the list holds None (FALSE)
\* where get_embedding raised and the embedding (TRUE) elsewhere
GetEmbeddingsBatchResumable(texts, fails) ==
    Return([k \in 1..Len(texts) |-> ~fails[k]])

\* the positions whose embedding is not None, in order
ValidPositions(embeddings) ==
    SelectSeq([k \in 1..Len(embeddings) |-> k], LAMBDA k : embeddings[k])

\* vector_store.py 114-126: the chunks whose embedding is not None
ValidChunks(embeddings, chunks) ==
    LET pos == ValidPositions(embeddings)
    IN  [k \in 1..Len(pos) |-> chunks[pos[k]]]

\* a run that goes to the save without the index write
PcAfterFilterSkipAdd(valid_ids) == "save"

\* vector_store.py 129: if valid_ids
PcAfterFilter(valid_ids) == IF valid_ids # <<>> THEN "add" ELSE "save"

\* add_documents_resumable, lines 102-126: the embedding of the remaining chunks
\* and the filter of the None embeddings
EmbedAndFilter(p, fails) ==
    /\ run[p].pc = "embed"
    /\ LET r == run[p]
           got == GetEmbeddingsBatchResumable(Texts(r.remaining_docs), fails)
           embeddings == got.value
           valid == ValidChunks(embeddings, r.remaining_docs)
       IN  IF got.raised
           THEN run' = [run EXCEPT ![p] = Finish(r, "error")]
           ELSE run' = [run EXCEPT ![p] =
                          [r EXCEPT !.embeddings = embeddings,
                                    !.valid = valid,
                                    !.newly_processed_ids = @ \o Ids(valid),
                                    !.i = 0,
                                    !.pc = PcAfterFilter(Ids(valid))]]
    /\ lastEnd' = [lastEnd EXCEPT ![run[p].doc] = IF run'[p].pc = "done" THEN FALSE ELSE @]
    /\ UNCHANGED <<files, index, now, arg, ret>>

\* a batch end one record too far
BatchEndOver(i, batch_size, n) == Min(i + batch_size + 1, n)

\* min(i + batch_size, len(valid_ids))
BatchEnd(i, batch_size, n) == Min(i + batch_size, n)

\* the records of valid[i:batch_end]
BatchRecords(valid, i, batch_end, source) ==
    LET b == Slice(valid, i, batch_end)
    IN  [k \in 1..Len(b) |-> IndexRecord(b[k][1], b[k][2], source)]

\* a handler that logs the error of the index call and goes on to the save
ExceptLogAndSave(r) == [r EXCEPT !.pc = "save"]

\* vector_store.py 161-163: the except clause logs and raises again
ExceptRaise(r) == Finish(r, "error")

\* one iteration of the batch loop, vector_store.py 133-145; ok: the index accepts the call
AddBatch(p, ok) ==
    /\ run[p].pc = "add"
    /\ LET r == run[p]
           batch_end == BatchEnd(r.i, r.batch_size, Len(r.valid))
           recs == BatchRecords(r.valid, r.i, batch_end, r.source)
           added == IF ok THEN CollectionAdd(index, recs) ELSE Raise
           called == [r EXCEPT !.addCalls = Append(@, [k \in 1..Len(recs) |-> recs[k].id])]
       IN  IF added.raised
           THEN /\ run' = [run EXCEPT ![p] = ExceptRaise(called)]
                /\ index' = index
                /\ lastEnd' = [lastEnd EXCEPT ![r.doc] = r.i > 0]
           ELSE /\ index' = added.value
                /\ run' = [run EXCEPT ![p] =
                             [called EXCEPT !.i = r.i + r.batch_size,
                                            !.pc = IF r.i + r.batch_size < Len(r.valid)
                                                   THEN "add" ELSE "save"]]
                /\ lastEnd' = lastEnd
    /\ UNCHANGED <<files, now, arg, ret>>

\* a checkpoint that records the count and the IDs read at the start, without those of this run
UpdatedCheckpointOldIds(processed_count, valid, documents, newly_processed_ids, document_name) ==
    [processed_chunks |-> processed_count,
     total_chunks |-> Len(documents),
     processed_ids |-> SubSeq(newly_processed_ids, 1, Len(newly_processed_ids) - Len(valid)),
     document_name |-> document_name]

\* a checkpoint that counts every chunk given, embedded or not
UpdatedCheckpointCountDocuments(processed_count, valid, documents, newly_processed_ids, document_name) ==
    [processed_chunks |-> processed_count + Len(documents),
     total_chunks |-> Len(documents),
     processed_ids |-> newly_processed_ids,
     document_name |-> document_name]

\* vector_store.py 151-156
UpdatedCheckpoint(processed_count, valid, documents, newly_processed_ids, document_name) ==
    [processed_chunks |-> processed_count + Len(valid),
     total_chunks |-> Len(documents),
     processed_ids |-> newly_processed_ids,
     document_name |-> document_name]

\* save_checkpoint up to open(checkpoint_file, 'w'), which truncates the file
SaveOpen(p) ==
    /\ run[p].pc = "save"
    /\ LET r == run[p]
           updated == UpdatedCheckpoint(r.processed_count, r.valid, r.documents,
                                        r.newly_processed_ids, r.doc)
       IN  /\ run' = [run EXCEPT ![p] = [r EXCEPT !.pc = "dump",
                                                  !.progress = SavedRecord(r.doc, updated, now)]]
           /\ files' = [files EXCEPT ![r.doc] = Partial]
    /\ UNCHANGED <<index, now, lastEnd, arg, ret>>

\* the file after json.dump(progress, f) and the close of a file opened with 'w'
\* (checkpoint_manager.py 26-27).  The text is written at offset 0 of the file as
\* it is then: the file was truncated at the open, and it holds a record again
\* only if another process has saved since.  A longer record (more IDs) that is
\* there keeps its tail after the text written, and the file is not parseable
DumpedFile(file, progress) ==
    IF file.kind = "json" /\ Len(file.data.processed_ids) > Len(progress.processed_ids)
    THEN Partial
    ELSE Json(progress)

\* json.dump(progress, f) and the return of the run
SaveDump(p) ==
    /\ run[p].pc = "dump"
    /\ files' = [files EXCEPT ![run[p].doc] = DumpedFile(@, run[p].progress)]
    /\ run' = [run EXCEPT ![p] = Finish(@, "ok")]
    /\ lastEnd' = [lastEnd EXCEPT ![run[p].doc] = FALSE]
    /\ UNCHANGED <<index, now, arg, ret>>

\* the process is terminated
Crash(p) ==
    /\ Active(p)
    /\ run' = [run EXCEPT ![p] = Finish(@, "crashed")]
    /\ lastEnd' = [lastEnd EXCEPT ![run[p].doc] =
                     \/ run[p].pc = "add" /\ run[p].i > 0
                     \/ run[p].pc = "save" /\ run[p].valid # <<>>]
    /\ UNCHANGED <<files, index, now, arg, ret>>

\* a reset that writes the zeroed record in place of removing the file
ResetCheckpointFileZeroed(document_name, file) == Json(Zeroed(document_name))

\* checkpoint_manager.py 88-89: the file is removed if it exists
ResetCheckpointFile(document_name, file) ==
    IF file.kind # "absent" THEN Absent ELSE file

\* reset_checkpoint, between runs; when a file is removed the locals of the runs
\* that ended are gone
ResetCheckpoint(d) ==
    /\ \A p \in Procs : ~Active(p)
    /\ files' = [files EXCEPT ![d] = ResetCheckpointFile(d, @)]
    /\ run' = IF files'[d] # files[d] THEN [p \in Procs |-> IdleRun] ELSE run
    /\ UNCHANGED <<index, now, lastEnd, arg, ret>>

Next ==
    \/ \E d \in Docs, ioerr \in BOOLEAN : ResumeStart(1, d, ioerr)
    \/ \E d \in Docs, ioerr \in BOOLEAN : ResumeExtractFails(1, d, ioerr)
    \/ \E d \in Docs, batch_size \in 1..MaxBatchSize : DirectStart(1, d, batch_size)
    \/ \E ioerr \in BOOLEAN : AdrLoad(1, ioerr)
    \/ \E fails \in [1..Len(run[1].remaining_docs) -> BOOLEAN] : EmbedAndFilter(1, fails)
    \/ \E ok \in BOOLEAN : AddBatch(1, ok)
    \/ SaveOpen(1)
    \/ SaveDump(1)
    \/ Crash(1)
    \/ \E d \in Docs : ResetCheckpoint(d)

Spec == Init /\ [][Next]_vars

----------------------------------------------------------------------------
(* Resume runs repeated without end on documents that do not change: no crash, *)
(* no reset, the checkpoint file is read and the index accepts every call.     *)
(* The clock stops at MaxTime.                                                  *)

ResumeAgain(p, d) ==
    /\ ResumeBody(p, d, FALSE)
    /\ now' = Min(now + 1, MaxTime)

\* the embedding of the chunk id succeeds in the embedding loop of the run
EmbedSucceeds(p, id) ==
    \E fails \in [1..Len(run[p].remaining_docs) -> BOOLEAN] :
        /\ \E k \in 1..Len(run[p].remaining_docs) :
              run[p].remaining_docs[k][1] = id /\ ~fails[k]
        /\ EmbedAndFilter(p, fails)

NextResume ==
    \/ \E d \in Docs : ResumeAgain(1, d)
    \/ AdrLoad(1, FALSE)
    \/ \E fails \in [1..Len(run[1].remaining_docs) -> BOOLEAN] : EmbedAndFilter(1, fails)
    \/ AddBatch(1, TRUE)
    \/ SaveOpen(1)
    \/ SaveDump(1)

\* every run that has started runs to its end, runs on each document start again
\* and again, and an embedding attempted again and again succeeds in some run
FairResume ==
    /\ WF_vars(AdrLoad(1, FALSE))
    /\ WF_vars(\E fails \in [1..Len(run[1].remaining_docs) -> BOOLEAN] : EmbedAndFilter(1, fails))
    /\ WF_vars(AddBatch(1, TRUE))
    /\ WF_vars(SaveOpen(1))
    /\ WF_vars(SaveDump(1))
    /\ \A d \in Docs : SF_vars(ResumeAgain(1, d))
    /\ \A id \in AllIds : SF_vars(EmbedSucceeds(1, id))

SpecResume == Init /\ [][NextResume]_vars /\ FairResume

----------------------------------------------------------------------------
(* Two processes call add_documents_resumable with no lock, on the same document *)
(* or on two: every step of one may come between two steps of the other.  No    *)
(* process is terminated and the checkpoint file is read without I/O error.     *)

NextConcurrent ==
    \/ \E p \in Procs, d \in Docs, batch_size \in 1..MaxBatchSize : DirectStart(p, d, batch_size)
    \/ \E p \in Procs : AdrLoad(p, FALSE)
    \/ \E p \in Procs : \E fails \in [1..Len(run[p].remaining_docs) -> BOOLEAN] : EmbedAndFilter(p, fails)
    \/ \E p \in Procs, ok \in BOOLEAN : AddBatch(p, ok)
    \/ \E p \in Procs : SaveOpen(p)
    \/ \E p \in Procs : SaveDump(p)

SpecConcurrent == Init /\ [][NextConcurrent]_vars

----------------------------------------------------------------------------
(* get_remaining_chunks applied on its own to bounded arguments *)

ChunkUniverse == UNION {Range(ProcessPdf(d)) : d \in Docs}

SeqsUpTo(S, n) == UNION {[1..m -> S] : m \in 0..n}

InitGetRemaining ==
    /\ files = [d \in Docs |-> Absent]
    /\ index = EmptyBag
    /\ run = [p \in Procs |-> IdleRun]
    /\ now = 0
    /\ lastEnd = [d \in Docs |-> FALSE]
    /\ arg \in {[all_chunks |-> s,
                 checkpoint |-> [Zeroed("docA") EXCEPT !.processed_ids = ids,
                                                       !.processed_chunks = Len(ids)]] :
                    s \in SeqsUpTo(ChunkUniverse, MaxLen),
                    ids \in SeqsUpTo(AllIds, MaxLen - 1)}
    /\ ret = <<>>

ApplyGetRemainingChunks ==
    /\ ret = <<>>
    /\ ret' = <<GetRemainingChunks(arg.all_chunks, arg.checkpoint)>>
    /\ UNCHANGED <<files, index, run, now, lastEnd, arg>>

NextGetRemaining == ApplyGetRemainingChunks

SpecGetRemaining == InitGetRemaining /\ [][NextGetRemaining]_vars

----------------------------------------------------------------------------
(* PDFProcessor.chunk_text and the ID assignment of process_pdf applied to a   *)
(* text.  A text is a sequence of characters: a letter, a full stop, a space.  *)

Chars == {"a", ".", " "}

Max(S) == CHOOSE m \in S : \A k \in S : k <= m

\* str.rfind: the highest 0-based position of c in s, or -1
RFind(s, c) ==
    LET at == {j \in 1..Len(s) : s[j] = c}
    IN  IF at = {} THEN -1 ELSE Max(at) - 1

RECURSIVE LStrip(_)
LStrip(s) == IF s # <<>> /\ Head(s) = " " THEN LStrip(Tail(s)) ELSE s

RECURSIVE RStrip(_)
RStrip(s) == IF s # <<>> /\ s[Len(s)] = " " THEN RStrip(SubSeq(s, 1, Len(s) - 1)) ELSE s

\* str.strip
Strip(s) == RStrip(LStrip(s))

\* the end of the window after the search of a sentence boundary (pdf_processor.py 43-46)
WindowEnd(text, start, chunk, chunk_size) ==
    LET end == start + chunk_size
        last_period == RFind(chunk, ".")
    IN  IF end < Len(text) /\ last_period > chunk_size \div 2
        THEN start + last_period + 1
        ELSE end

\* the while loop of chunk_text from the position start
RECURSIVE ChunkTextLoop(_, _, _, _)
ChunkTextLoop(text, start, chunk_size, chunk_overlap) ==
    IF start < Len(text)
    THEN LET chunk == Slice(text, start, start + chunk_size)
             end == WindowEnd(text, start, chunk, chunk_size)
         IN  <<Strip(chunk)>> \o ChunkTextLoop(text, end - chunk_overlap, chunk_size, chunk_overlap)
    ELSE <<>>

\* chunk_text
ChunkTextList(text, chunk_size, chunk_overlap) == ChunkTextLoop(text, 0, chunk_size, chunk_overlap)

\* process_pdf on the text extracted: the list of (chunk_id, chunk)
ProcessText(text, chunk_size, chunk_overlap) ==
    LET chunks == ChunkTextList(text, chunk_size, chunk_overlap)
    IN  [k \in 1..Len(chunks) |-> <<ChunkId(k - 1, chunks[k]), chunks[k]>>]

\* the parameters of a PDFProcessor; the loop of chunk_text advances when the overlap
\* is at most half the chunk size, as with (700, 100) and (600, 150)
ChunkParams ==
    {pr \in (2..MaxChunkSize) \X (0..MaxChunkSize) : pr[2] <= pr[1] \div 2}

\* a text of n letters with full stops at the 0-based positions stops
TextWithStops(n, stops) == [k \in 1..n |-> IF k - 1 \in stops THEN "." ELSE "a"]

\* texts of 1450 characters for the parameters of upload_pdf
LongTexts == {TextWithStops(1450, stops) : stops \in SUBSET {350, 599, 1049, 1449}}

ChunkInputs ==
    {[text |-> t, chunk_size |-> pr[1], chunk_overlap |-> pr[2]] :
        t \in SeqsUpTo(Chars, MaxTextLen), pr \in ChunkParams}
    \cup {[text |-> t, chunk_size |-> UploadChunkSize, chunk_overlap |-> UploadChunkOverlap] :
             t \in LongTexts}

InitChunk ==
    /\ files = [d \in Docs |-> Absent]
    /\ index = EmptyBag
    /\ run = [p \in Procs |-> IdleRun]
    /\ now = 0
    /\ lastEnd = [d \in Docs |-> FALSE]
    /\ arg \in ChunkInputs
    /\ ret = <<>>

\* one call of process_pdf on the text; ret holds the results of the calls made
ApplyProcessPdf ==
    /\ Len(ret) < 2
    /\ ret' = Append(ret, ProcessText(arg.text, arg.chunk_size, arg.chunk_overlap))
    /\ UNCHANGED <<files, index, run, now, lastEnd, arg>>

NextChunk == ApplyProcessPdf

SpecChunk == InitChunk /\ [][NextChunk]_vars

----------------------------------------------------------------------------
(* The while loop of chunk_text followed one iteration at a time, for every      *)
(* chunk_overlap below chunk_size.  ret holds the locals of the call: start, the *)
(* start of the iteration before (prev), the chunks appended, the positions of   *)
(* the text that the windows text[start:start + chunk_size] have taken (covered),*)
(* whether an end was moved back to a full stop (cut), and whether the call has  *)
(* returned.                                                                     *)

\* a Python slice index as a 0-based position of a sequence of n items; a negative
\* index counts from the end
SliceBound(n, i) == IF i < 0 THEN Max({n + i, 0}) ELSE Min(i, n)

\* the positions that the Python slice [i:j] takes
SlicePositions(n, i, j) == SliceBound(n, i)..(SliceBound(n, j) - 1)

\* Python s[i:j]
PySlice(s, i, j) == SubSeq(s, SliceBound(Len(s), i) + 1, SliceBound(Len(s), j))

\* a loop that starts the next window after the overlap instead of before it
NextStartPastEnd(end, chunk_overlap) == end + chunk_overlap

\* pdf_processor.py 49: start = end - self.chunk_overlap
NextStart(end, chunk_overlap) == end - chunk_overlap

LoopInputs ==
    {[text |-> t, chunk_size |-> size, chunk_overlap |-> overlap] :
        t \in SeqsUpTo(Chars, MaxTextLen),
        size \in 1..MaxChunkSize,
        overlap \in 0..(MaxChunkSize - 1)}

InitChunkLoop ==
    /\ files = [d \in Docs |-> Absent]
    /\ index = EmptyBag
    /\ run = [p \in Procs |-> IdleRun]
    /\ now = 0
    /\ lastEnd = [d \in Docs |-> FALSE]
    /\ arg \in {a \in LoopInputs : a.chunk_overlap < a.chunk_size}
    /\ ret = [start |-> 0, prev |-> 0, chunks |-> <<>>, covered |-> {},
              cut |-> FALSE, returned |-> FALSE]

\* one iteration of the while loop (pdf_processor.py 38-49)
ChunkTextStep ==
    /\ ~ret.returned
    /\ ret.start < Len(arg.text)
    /\ Len(ret.chunks) < MaxIterations
    /\ LET start == ret.start
           chunk == PySlice(arg.text, start, start + arg.chunk_size)
           end == WindowEnd(arg.text, start, chunk, arg.chunk_size)
       IN  ret' = [start |-> NextStart(end, arg.chunk_overlap),
                   prev |-> start,
                   chunks |-> Append(ret.chunks, Strip(chunk)),
                   covered |-> ret.covered
                               \cup SlicePositions(Len(arg.text), start, start + arg.chunk_size),
                   cut |-> ret.cut \/ end # start + arg.chunk_size,
                   returned |-> FALSE]
    /\ UNCHANGED <<files, index, run, now, lastEnd, arg>>

\* the loop condition is false: chunk_text returns its chunks (pdf_processor.py 51-52)
ChunkTextReturn ==
    /\ ~ret.returned
    /\ ret.start >= Len(arg.text)
    /\ ret' = [ret EXCEPT !.returned = TRUE]
    /\ UNCHANGED <<files, index, run, now, lastEnd, arg>>

NextChunkLoop == ChunkTextStep \/ ChunkTextReturn

SpecChunkLoop == InitChunkLoop /\ [][NextChunkLoop]_vars

----------------------------------------------------------------------------
(* get_embeddings_batch_resumable applied on its own, with the calls it makes of *)
(* its progress callback                                                         *)

\* the for loop of embeddings.py 58-74 from the 0-based item i; a call of the
\* callback is recorded with the item it follows and its two arguments
RECURSIVE EmbedLoop(_, _, _, _, _, _)
EmbedLoop(fails, i, processed_count, start_index, embeddings, calls) ==
    IF i >= Len(fails) THEN [embeddings |-> embeddings, calls |-> calls]
    ELSE IF fails[i + 1]
    THEN EmbedLoop(fails, i + 1, processed_count, start_index, Append(embeddings, FALSE), calls)
    ELSE EmbedLoop(fails, i + 1, processed_count + 1, start_index,
                   Append(embeddings, TRUE),
                   IF (i + 1) % CallbackEvery = 0
                   THEN Append(calls, [item |-> i + 1,
                                       current |-> processed_count + 1,
                                       total |-> start_index + Len(fails)])
                   ELSE calls)

\* get_embeddings_batch_resumable(texts, start_index, callback), fails[k] saying that
\* get_embedding raises on the k-th text
GetEmbeddingsWithCallback(fails, start_index) ==
    EmbedLoop(fails, 0, start_index, start_index, <<>>, <<>>)

EmbedInputs ==
    {[fails |-> f, start_index |-> st] :
        f \in UNION {[1..n -> BOOLEAN] : n \in 0..MaxTexts}, st \in 0..MaxStartIndex}

InitEmbed ==
    /\ files = [d \in Docs |-> Absent]
    /\ index = EmptyBag
    /\ run = [p \in Procs |-> IdleRun]
    /\ now = 0
    /\ lastEnd = [d \in Docs |-> FALSE]
    /\ arg \in EmbedInputs
    /\ ret = <<>>

ApplyGetEmbeddingsBatchResumable ==
    /\ ret = <<>>
    /\ ret' = <<GetEmbeddingsWithCallback(arg.fails, arg.start_index)>>
    /\ UNCHANGED <<files, index, run, now, lastEnd, arg>>

NextEmbed == ApplyGetEmbeddingsBatchResumable

SpecEmbed == InitEmbed /\ [][NextEmbed]_vars

----------------------------------------------------------------------------
(* The scripts, the upload endpoint and the initialisation of the reference   *)
(* materials applied to PDFs with a text: each call runs to its end without   *)
(* crash, checkpoint read error or index error.  A PDF is a sequence of       *)
(* sentences; arg holds the PDFs, ret the last call and the stage of each     *)
(* document.  Every VectorStore is constructed on the directory of the one    *)
(* index, as RAGManager constructs its own (rag_tool.py 21).  The PDF of docA *)
(* is uploaded, synchronised, resumed and appended to; the PDF of docB is a   *)
(* second document of one sentence at most, which resume runs process.        *)

Sentences ==
    {<<"a", "b", "c", "d", "e", ".", " ">>,
     <<"a", "b", "f", "g", "h", "i", ".", " ">>}

RECURSIVE Concat(_)
Concat(ss) == IF ss = <<>> THEN <<>> ELSE Head(ss) \o Concat(Tail(ss))

\* PDFProcessor() of the scripts: process_pdf with the default parameters
ProcessDefault(pdf) ==
    ProcessText(Concat(pdf), DefaultChunkSize \div Scale, DefaultChunkOverlap \div Scale)

\* fail = 0: every get_embedding returns; fail = k: it raises on the k-th text
FailsAt(n, fail) == [k \in 1..n |-> k = fail]

\* the records the index holds under an ID of the chunk list, with its text
Indexed(idx, chunk) == \E r \in BagToSet(idx) : r.id = chunk[1] /\ r.text = chunk[2]

\* source="pdf" of resume_pdf_embeddings; a source is a tuple of its parts
ResumeSource == <<"pdf">>

\* add_documents_resumable to its end (vector_store.py 74-159) on the chunks given,
\* the index accepting every call: the index and the checkpoint file it leaves,
\* the chunks it embedded and the IDs it gave to the index
AddDocumentsResumable(documents, d, file, idx, fail, time) ==
    LET got == GetRemainingChunks(documents, LoadCheckpoint(d, file, FALSE).value)
        remaining_docs == got.remaining
        embeddings == GetEmbeddingsBatchResumable(Texts(remaining_docs),
                                                  FailsAt(Len(remaining_docs), fail)).value
        valid == ValidChunks(embeddings, remaining_docs)
        added == CollectionAdd(idx, BatchRecords(valid, 0, BatchEnd(0, DefaultBatchSize, Len(valid)), ResumeSource))
        updated == UpdatedCheckpoint(got.checkpoint.processed_chunks, valid, documents,
                                     got.checkpoint.processed_ids \o Ids(valid), d)
    IN  IF NothingToDo(Ids(remaining_docs))
        THEN [index |-> idx, file |-> file, embedded |-> <<>>, written |-> <<>>, raised |-> FALSE]
        ELSE IF PcAfterFilter(Ids(valid)) = "add" /\ added.raised
        THEN [index |-> idx, file |-> file, embedded |-> remaining_docs, written |-> <<>>,
              raised |-> TRUE]
        ELSE [index |-> IF PcAfterFilter(Ids(valid)) = "add" THEN added.value ELSE idx,
              file |-> Json(SavedRecord(d, updated, time)),
              embedded |-> remaining_docs, written |-> Ids(valid), raised |-> FALSE]

\* resume_pdf_embeddings to its end (resume_embeddings.py 43-73)
ResumePdfEmbeddings(pdf, d, file, idx, fail, time) ==
    LET checkpoint == LoadCheckpoint(d, file, FALSE).value
        remaining_chunks == GetRemainingChunks(ProcessDefault(pdf), checkpoint).remaining
    IN  IF remaining_chunks = <<>>
        THEN [index |-> idx, file |-> file, embedded |-> <<>>, written |-> <<>>, raised |-> FALSE]
        ELSE AddDocumentsResumable(remaining_chunks, d, file, idx, fail, time)

\* get_embeddings_batch (embeddings.py 31-46): the first get_embedding that raises
\* ends the loop with its exception
GetEmbeddingsBatch(texts, fails) ==
    IF \E k \in 1..Len(texts) : fails[k] THEN Raise
    ELSE Return([k \in 1..Len(texts) |-> TRUE])

\* the records of a chunk list
RecordsOf(documents, source) ==
    [k \in 1..Len(documents) |-> IndexRecord(documents[k][1], documents[k][2], source)]

\* an add_documents that embeds and adds the chunks one at a time, up to the first
\* embedding that fails
AddDocumentsEach(documents, source, idx, fail) ==
    LET n == IF fail \in 1..Len(documents) THEN fail - 1 ELSE Len(documents)
        added == CollectionAdd(idx, RecordsOf(SubSeq(documents, 1, n), source))
    IN  [index |-> IF added.raised THEN idx ELSE added.value,
         calls |-> [k \in 1..n |-> <<documents[k][1]>>],
         raised |-> added.raised \/ n < Len(documents)]

\* VectorStore.add_documents (vector_store.py 32-63): the index it leaves, the ID
\* lists of its collection.add calls, and whether it raises
AddDocuments(documents, source, idx, fail) ==
    LET embeddings == GetEmbeddingsBatch(Texts(documents), FailsAt(Len(documents), fail))
        added == CollectionAdd(idx, RecordsOf(documents, source))
    IN  IF embeddings.raised
        THEN [index |-> idx, calls |-> <<>>, raised |-> TRUE]
        ELSE IF added.raised
        THEN [index |-> idx, calls |-> <<Ids(documents)>>, raised |-> TRUE]
        ELSE [index |-> added.value, calls |-> <<Ids(documents)>>, raised |-> FALSE]

\* PDFProcessor(chunk_size=600, chunk_overlap=150) of upload_pdf
ProcessUpload(pdf) ==
    ProcessText(Concat(pdf), UploadChunkSize \div Scale, UploadChunkOverlap \div Scale)

\* f"pdf_upload_{file.filename}"
UploadSource(d) == <<"pdf_upload", d>>

\* sync_embeddings_with_checkpoint (sync_existing_embeddings.py 42-86): the
\* checkpoint it saves, processed_ids in the order of the chunk list
SyncedCheckpoint(pdf, d, idx) ==
    LET all_chunks == ProcessDefault(pdf)
        chunk_ids_in_pdf == Range(Ids(all_chunks))
        by_source == {r.id : r \in {x \in BagToSet(idx) : x.source = UploadSource(d)}}
        existing_ids == IF by_source # {} THEN by_source ELSE IndexIds(idx)
        processed_ids == chunk_ids_in_pdf \cap existing_ids
    IN  [processed_chunks |-> Cardinality(processed_ids),
         total_chunks |-> Len(all_chunks),
         processed_ids |-> SelectSeq(Ids(all_chunks), LAMBDA id : id \in processed_ids),
         document_name |-> d]

\* every chunk of the PDF is in the processed_ids of the checkpoint file
Complete(pdf, d, file) ==
    GetRemainingChunks(ProcessDefault(pdf), LoadCheckpoint(d, file, FALSE).value).remaining = <<>>

NoCall == [op |-> "none", doc |-> "none", fail |-> 0, before |-> "new",
           embedded |-> <<>>, written |-> <<>>, calls |-> <<>>, raised |-> FALSE,
           indexChanged |-> FALSE]

InitDocs ==
    /\ files = [d \in Docs |-> Absent]
    /\ index = EmptyBag
    /\ run = [p \in Procs |-> IdleRun]
    /\ now = 0
    /\ lastEnd = [d \in Docs |-> FALSE]
    /\ arg \in {a \in [Docs -> SeqsUpTo(Sentences, MaxSentences - 1)] : Len(a["docB"]) <= 1}
    /\ ret = [last |-> NoCall, stage |-> [d \in Docs |-> "new"]]

\* a run of the resume script on the PDF of d.  The stage of d is "complete" once a
\* run has left no chunk remaining, "recomplete" when that happens after an append
ResumeRun(d, fail) ==
    LET out == ResumePdfEmbeddings(arg[d], d, files[d], index, fail, now)
        before == ret.stage[d]
        after == IF ~Complete(arg[d], d, out.file) THEN "partial"
                 ELSE IF before \in {"new", "partial", "complete", "synced"} THEN "complete"
                 ELSE "recomplete"
    IN  /\ now < MaxCalls
        /\ now' = now + 1
        /\ fail <= Len(ProcessDefault(arg[d]))
        /\ index' = out.index
        /\ files' = [files EXCEPT ![d] = out.file]
        /\ ret' = [last |-> [NoCall EXCEPT !.op = "resume", !.doc = d, !.fail = fail,
                                         !.before = before,
                                         !.embedded = out.embedded, !.written = out.written,
                                         !.raised = out.raised,
                                         !.indexChanged = out.index # index],
                   stage |-> [ret.stage EXCEPT ![d] = after]]
        /\ UNCHANGED <<run, lastEnd, arg>>

\* text is appended to the PDF of d
AppendText(d, sentence) ==
    /\ now < MaxCalls
    /\ now' = now + 1
    /\ Len(arg[d]) < MaxSentences
    /\ arg' = [arg EXCEPT ![d] = Append(@, sentence)]
    /\ ret' = [last |-> [NoCall EXCEPT !.op = "append", !.doc = d, !.before = ret.stage[d]],
               stage |-> [ret.stage EXCEPT ![d] =
                            IF @ \in {"complete", "appended"} THEN "appended" ELSE "changed"]]
    /\ UNCHANGED <<files, index, run, lastEnd>>

\* upload_pdf (main.py 319-330) on the PDF of d; add_pdf_documents turns the
\* exception of add_documents into success False
UploadPdf(d, fail) ==
    LET processed_chunks == ProcessUpload(arg[d])
        out == AddDocuments(processed_chunks, UploadSource(d), index, fail)
    IN  /\ now < MaxCalls
        /\ now' = now + 1
        /\ fail <= Len(processed_chunks)
        /\ index' = out.index
        /\ ret' = [last |-> [NoCall EXCEPT !.op = "upload", !.doc = d, !.fail = fail,
                                         !.before = ret.stage[d],
                                         !.embedded = processed_chunks,
                                         !.calls = out.calls,
                                         !.raised = out.raised,
                                         !.indexChanged = out.index # index],
                   stage |-> [ret.stage EXCEPT ![d] = IF out.raised THEN "changed" ELSE "uploaded"]]
        /\ UNCHANGED <<files, run, lastEnd, arg>>

\* sync_embeddings_with_checkpoint on the PDF of d
SyncEmbeddingsWithCheckpoint(d) ==
    /\ now < MaxCalls
    /\ now' = now + 1
    /\ files' = [files EXCEPT ![d] = Json(SavedRecord(d, SyncedCheckpoint(arg[d], d, index), now))]
    /\ ret' = [last |-> [NoCall EXCEPT !.op = "sync", !.doc = d, !.before = ret.stage[d]],
               stage |-> [ret.stage EXCEPT ![d] = IF @ = "uploaded" THEN "synced" ELSE "changed"]]
    /\ UNCHANGED <<index, run, lastEnd, arg>>

\* f"ref_{chunk_id:05d}"
RefId(chunk_id) == <<"ref", chunk_id>>

\* the list _chunk_documents returns for the reference materials of the code: the
\* IDs are numbered from 0 and the texts are not empty
RefChunks == [k \in 1..MaxRefChunks |-> <<RefId(k - 1), [j \in 1..k |-> "r"]>>]

RefSource == <<"default_reference">>

\* RAGManager._initialize_reference_materials (rag_tool.py 30-56): existing_count is
\* collection.count(), the number of records of the index whatever their source
InitializeReferenceMaterials(fail) ==
    LET all_chunks == RefChunks
        existing_count == BagCardinality(index)
        remaining_chunks == Slice(all_chunks, existing_count, Len(all_chunks))
        out == IF existing_count < Len(all_chunks)
               THEN AddDocuments(remaining_chunks, RefSource, index, fail)
               ELSE [index |-> index, calls |-> <<>>, raised |-> FALSE]
    IN  /\ now < MaxCalls
        /\ now' = now + 1
        /\ fail <= IF existing_count < Len(all_chunks) THEN Len(remaining_chunks) ELSE 0
        /\ index' = out.index
        /\ ret' = [last |-> [NoCall EXCEPT !.op = "init", !.fail = fail,
                                         !.before = IF ret.last.op = "init" /\ ~ret.last.raised
                                                    THEN "initialized" ELSE "new",
                                         !.calls = out.calls,
                                         !.raised = out.raised,
                                         !.indexChanged = out.index # index],
                   stage |-> ret.stage]
        /\ UNCHANGED <<files, run, lastEnd, arg>>

NextDocs ==
    \/ \E fail \in 0..MaxFail : InitializeReferenceMaterials(fail)
    \/ \E fail \in 0..MaxFail : UploadPdf("docA", fail)
    \/ SyncEmbeddingsWithCheckpoint("docA")
    \/ \E d \in Docs, fail \in 0..MaxFail : ResumeRun(d, fail)
    \/ \E sentence \in Sentences : AppendText("docA", sentence)

SpecDocs == InitDocs /\ [][NextDocs]_vars

----------------------------------------------------------------------------
(* Properties *)

\* the IDs the checkpoint file of d holds
FileIds(d) == IF files[d].kind = "json" THEN Range(files[d].data.processed_ids) ELSE {}

\* what a load_checkpoint that reads the file without error returns
Persisted(d) == LoadCheckpoint(d, files[d], FALSE).value
PersistedAtStart(r) == LoadCheckpoint(r.doc, r.filesAtStart, FALSE).value

DocIds(d) == Range(Ids(ProcessPdf(d)))

\* the number of records the index holds under an ID
RecordsUnder(id) ==
    LET rs == {r \in BagToSet(index) : r.id = id}
    IN  IF rs = {} THEN 0
        ELSE IF Cardinality(rs) = 1 THEN CopiesIn(CHOOSE r \in rs : TRUE, index)
        ELSE 2

RECURSIVE Flatten(_)
Flatten(calls) == IF calls = <<>> THEN <<>> ELSE Head(calls) \o Flatten(Tail(calls))

\* the run of p has ended with return True after saving its checkpoint
Saved(p) ==
    /\ run[p].pc = "done"
    /\ run[p].result = "ok"
    /\ run[p].embeddings # <<>>

\* C1: every ID of a persisted checkpoint is in the index, in every state, crashes
\* and exceptions included, and a run that has begun its save has written every
\* valid record to the index
C1_CheckpointedIdsAreIndexed ==
    /\ \A d \in Docs : FileIds(d) \subseteq IndexIds(index)
    /\ \A p \in Procs :
          (run[p].pc = "dump" \/ Saved(p)) => Range(Ids(run[p].valid)) \subseteq IndexIds(index)

\* a run crashed after an index write and before the save, over an earlier checkpoint
C1_Witness ==
    /\ run[1].pc = "done"
    /\ run[1].result = "crashed"
    /\ run[1].addCalls # <<>>
    /\ FileIds(run[1].doc) # {}
    /\ IndexIds(index) \ FileIds(run[1].doc) # {}

\* C2: a run in which some embeddings fail ends normally; the chunks embedded are
\* written and checkpointed, the chunks that failed are neither, and they remain
C2_PartialFailure ==
    \A p \in Procs :
        /\ (run[p].pc = "done" /\ run[p].result = "error") => run[p].addCalls # <<>>
        /\ Saved(p) =>
             LET r == run[p]
                 called == Range(Flatten(r.addCalls))
             IN  \A k \in 1..Len(r.remaining_docs) :
                    LET id == r.remaining_docs[k][1]
                    IN  IF r.embeddings[k]
                        THEN /\ id \in called
                             /\ id \in IndexIds(index)
                             /\ id \in FileIds(r.doc)
                        ELSE /\ id \notin called
                             /\ id \notin FileIds(r.doc)
                             /\ r.remaining_docs[k] \in
                                  Range(GetRemainingChunks(ProcessPdf(r.doc), Persisted(r.doc)).remaining)

C2_Witness ==
    /\ Saved(1)
    /\ \E k \in 1..Len(run[1].embeddings) : run[1].embeddings[k]
    /\ \E k \in 1..Len(run[1].embeddings) : ~run[1].embeddings[k]

\* C3: after a run interrupted between an index write and the save, a run that reads
\* its checkpoint and embeds every remaining chunk without failure leaves every chunk
\* of the document in the index under one record and in processed_ids
C3_ResumeAfterInterruption ==
    \A p \in Procs :
        LET r == run[p]
        IN  (/\ Saved(p)
             /\ r.prev
             /\ r.checkpoint = PersistedAtStart(r)
             /\ \A k \in 1..Len(r.embeddings) : r.embeddings[k])
            => \A id \in DocIds(r.doc) : RecordsUnder(id) = 1 /\ id \in FileIds(r.doc)

C3_Witness ==
    /\ Saved(1)
    /\ run[1].prev
    /\ run[1].checkpoint = PersistedAtStart(run[1])
    /\ \A k \in 1..Len(run[1].embeddings) : run[1].embeddings[k]
    /\ Len(run[1].embeddings) > 1

\* the run of p started on a document whose chunk IDs were all in processed_ids
StartedComplete(p) ==
    /\ run[p].pc # "idle"
    /\ run[p].filesAtStart.kind = "json"
    /\ DocIds(run[p].doc) \subseteq Range(run[p].filesAtStart.data.processed_ids)

NoEffect(p) ==
    /\ run[p].embeddings = <<>>
    /\ run[p].addCalls = <<>>
    /\ files[run[p].doc] = run[p].filesAtStart

C5_CountMatchesIds ==
    \A d \in Docs :
        files[d].kind = "json" =>
            /\ files[d].data.processed_chunks = Cardinality(FileIds(d))
            /\ FileIds(d) \subseteq DocIds(d)

\* a checkpoint saved after a run with a failed embedding, over an earlier checkpoint
C5_Witness ==
    /\ Saved(1)
    /\ run[1].filesAtStart.kind = "json"
    /\ \E k \in 1..Len(run[1].embeddings) : ~run[1].embeddings[k]
    /\ files[run[1].doc].data.processed_chunks > run[1].filesAtStart.data.processed_chunks

C7_CrashDuringSave ==
    \A p \in Procs :
        (/\ run[p].pc = "done"
         /\ run[p].result = "crashed"
         /\ run[p].progress # Zeroed("none")
         /\ PersistedAtStart(run[p]).processed_ids # <<>>
         /\ run[p].checkpoint = PersistedAtStart(run[p]))
        => Persisted(run[p].doc) \in {PersistedAtStart(run[p]), run[p].progress}

\* C8: load_checkpoint raises on no file content and no read error, and returns the
\* zeroed record of the document unless it read a record
C8_LoadNeverRaises ==
    \A d \in Docs, ioerr \in BOOLEAN :
        LET r == LoadCheckpoint(d, files[d], ioerr)
        IN  /\ ~r.raised
            /\ (files[d].kind # "json" \/ ioerr) => r.value = Zeroed(d)
            /\ (files[d].kind = "json" /\ ~ioerr) => r.value = files[d].data

\* a run that loaded the zeroed record from a file left partial by a crashed save
C8_Witness ==
    /\ run[1].pc = "embed"
    /\ run[1].filesAtStart = Partial
    /\ files[run[1].doc] = Partial
    /\ run[1].checkpoint = Zeroed(run[1].doc)

\* C9: get_remaining_chunks returns the chunks whose ID is not in processed_ids, in
\* their order, and leaves the checkpoint as it was
C9_RemainingChunks ==
    ret # <<>> =>
        LET all == arg.all_chunks
            out == ret[1]
            keep == {k \in 1..Len(all) : all[k][1] \notin Range(arg.checkpoint.processed_ids)}
        IN  /\ Len(out.remaining) = Cardinality(keep)
            /\ \A k \in keep : out.remaining[Cardinality({m \in keep : m <= k})] = all[k]
            /\ out.checkpoint = arg.checkpoint

\* a call that drops a chunk between two it keeps
C9_Witness ==
    /\ ret # <<>>
    /\ Len(arg.all_chunks) = 3
    /\ Len(ret[1].remaining) = 2
    /\ ret[1].remaining = <<arg.all_chunks[1], arg.all_chunks[3]>>
    /\ arg.all_chunks[1] # arg.all_chunks[3]

\* C10: the index calls of a run are non-empty batches of at most batch_size IDs that
\* follow the valid records in order, and a run that reaches the save has written
\* every valid record once
C10_Batches ==
    \A p \in Procs :
        LET r == run[p]
            flat == Flatten(r.addCalls)
            ids == Ids(r.valid)
        IN  /\ \A c \in 1..Len(r.addCalls) :
                 /\ Len(r.addCalls[c]) >= 1
                 /\ Len(r.addCalls[c]) <= r.batch_size
                 /\ c < Len(r.addCalls) => Len(r.addCalls[c]) = r.batch_size
            /\ Len(flat) <= Len(ids)
            /\ flat = SubSeq(ids, 1, Len(flat))
            /\ (r.pc \in {"save", "dump"} \/ (r.pc = "done" /\ r.result = "ok")) => flat = ids

\* three valid records written in batches of two
C10_Witness ==
    /\ Saved(1)
    /\ run[1].batch_size = 2
    /\ Len(run[1].valid) = 3
    /\ Len(run[1].addCalls) = 2
    /\ Len(run[1].addCalls[2]) = 1

\* C11: when the index call of batch k raises, the run ends there with the error
\* (no later batch is attempted), the checkpoint file is as it was when the run
\* started, and the records of the batches before k are in the index
C11_IndexWriteFailure ==
    \A p \in Procs :
        LET r == run[p]
            k == Len(r.addCalls)
        IN  (/\ k > 0
             /\ \/ r.result = "error"
                \/ \E c \in 1..k : ~(Range(r.addCalls[c]) \subseteq IndexIds(index)))
            => /\ r.pc = "done"
               /\ r.result = "error"
               /\ r.i = (k - 1) * r.batch_size
               /\ \A c \in 1..(k - 1) : Range(r.addCalls[c]) \subseteq IndexIds(index)
               /\ files[r.doc] = r.filesAtStart

\* the second of three batches failed
C11_Witness ==
    /\ run[1].pc = "done"
    /\ run[1].result = "error"
    /\ run[1].batch_size = 1
    /\ Len(run[1].valid) = 3
    /\ Len(run[1].addCalls) = 2
    /\ run[1].addCalls[2][1] \notin IndexIds(index)

\* the chunks of d that get_remaining_chunks returns for the persisted checkpoint
Remaining(d) == GetRemainingChunks(ProcessPdf(d), Persisted(d)).remaining

\* a resume run starts on the document of the run that has just saved its checkpoint
\* with embeddings that failed: the chunks that failed are given to the new run
RetryStep ==
    (/\ Saved(1)
     /\ run'[1].pc # "done"
     /\ run'[1].doc = run[1].doc)
    => /\ run'[1].pc = "adr"
       /\ \A k \in 1..Len(run[1].embeddings) :
             ~run[1].embeddings[k] => run[1].remaining_docs[k] \in Range(run'[1].documents)

\* a run that has reached its embedding loop embeds every chunk given to it whose ID
\* the checkpoint file did not hold when the run started
AttemptsUnprocessed ==
    \A p \in Procs :
        run[p].pc \in {"embed", "add", "save", "dump"} \/ Saved(p) =>
            \A k \in 1..Len(run[p].documents) :
                run[p].documents[k][1] \notin Range(PersistedAtStart(run[p]).processed_ids)
                    => run[p].documents[k] \in Range(run[p].remaining_docs)

PastLoad(p) == run[p].pc \in {"embed", "add", "save", "dump"} \/ run[p].embeddings # <<>>

\* the IDs of the index calls of the run of p
Written(p) == Range(Flatten(run[p].addCalls))

\* C13: a run embeds exactly the chunks given to it whose ID is absent from the
\* processed_ids it loaded, and a run that reaches its save has given to the index
\* every one of them that was embedded, whether the index held its ID or not; a
\* run that finds no checkpoint embeds and writes every chunk
C13_CheckpointDecides ==
    \A p \in Procs :
        LET r == run[p]
            loaded == Range(r.checkpoint.processed_ids)
        IN  PastLoad(p) =>
              /\ r.remaining_docs = SelectSeq(r.documents, LAMBDA chunk : chunk[1] \notin loaded)
              /\ r.embeddings # <<>> => Len(r.embeddings) = Len(r.remaining_docs)
              /\ (r.pc \in {"save", "dump"} \/ Saved(p)) =>
                    Written(p) = {r.remaining_docs[k][1] : k \in {j \in 1..Len(r.embeddings) : r.embeddings[j]}}
              /\ r.checkpoint.processed_ids = <<>> => r.remaining_docs = r.documents

\* after a run that wrote to the index and did not save, a run on the whole
\* document found no checkpoint and has embedded and written every chunk again
C13_Witness ==
    /\ Saved(1)
    /\ run[1].entry = "direct"
    /\ run[1].prev
    /\ run[1].filesAtStart = Absent
    /\ Written(1) = DocIds(run[1].doc)
    /\ Len(run[1].documents) > 1

\* C14: a reset_checkpoint of d leaves a file for which load_checkpoint returns the
\* zeroed record of d, with or without a read error; it leaves the checkpoint files
\* of the other documents and the index as they were, and changes nothing when d
\* has no checkpoint file
C14_Reset ==
    [][\A d \in Docs :
          ResetCheckpoint(d) =>
             /\ \A ioerr \in BOOLEAN :
                   LoadCheckpoint(d, files'[d], ioerr) = Return(Zeroed(d))
             /\ \A e \in Docs \ {d} : files'[e] = files[e]
             /\ index' = index
             /\ files[d] = Absent => files' = files /\ run' = run]_vars

\* a complete document has been reset: its records are in the index, the checkpoint
\* of the other document is in place
C14_Witness ==
    /\ run[1] = IdleRun
    /\ now > 0
    /\ files["docA"] = Absent
    /\ DocIds("docA") \subseteq IndexIds(index)
    /\ files["docB"].kind = "json"

\* C15: when a run has ended, succeeded, failed or terminated, the processed_ids of
\* the persisted checkpoint of its document hold every ID they held when the run
\* started
C15_NeverLosesId ==
    \A p \in Procs :
        run[p].pc = "done" =>
            Range(PersistedAtStart(run[p]).processed_ids)
                \subseteq Range(Persisted(run[p].doc).processed_ids)

Example1450 ==
    /\ Len(arg.text) = 1450
    /\ arg.chunk_size = 600
    /\ arg.chunk_overlap = 150

\* C17: a text of 1450 characters chunked with chunk_size 600 and chunk_overlap 150
\* gives 3 chunks, whose IDs carry the sequence numbers 0, 1 and 2
C17_ThreeChunks ==
    (ret # <<>> /\ Example1450) =>
        /\ Len(ret[1]) = 3
        /\ \A k \in 1..Len(ret[1]) : ret[1][k][1][2] = k - 1

\* C18: each chunk after the first begins with the last chunk_overlap characters
\* of the chunk before it; stated for the texts without whitespace, which strip()
\* leaves as they are, and for the chunks of at least chunk_overlap characters
C18_Overlap ==
    (ret # <<>> /\ " " \notin Range(arg.text)) =>
        \A k \in 1..(Len(ret[1]) - 1) :
            LET earlier == ret[1][k][2]
                later == ret[1][k + 1][2]
            IN  Len(later) >= arg.chunk_overlap =>
                  Slice(later, 0, arg.chunk_overlap)
                    = SubSeq(earlier, Len(earlier) - arg.chunk_overlap + 1, Len(earlier))

\* C19: no chunk that process_pdf returns has an empty or whitespace-only text
C19_NoEmptyChunk ==
    ret # <<>> =>
        \A k \in 1..Len(ret[1]) : Strip(ret[1][k][2]) # <<>>

\* C20: the chunk IDs of one process_pdf call are pairwise distinct
C20_DistinctIds ==
    ret # <<>> =>
        \A j, k \in 1..Len(ret[1]) : j # k => ret[1][j][1] # ret[1][k][1]

\* a list in which two chunks have the same text
C20_Witness ==
    /\ ret # <<>>
    /\ Len(ret[1]) >= 3
    /\ \E j, k \in 1..Len(ret[1]) : j # k /\ ret[1][j][2] = ret[1][k][2]

\* C21: a resume run whose text extraction fails ends with return False before any
\* embedding, any index call and any checkpoint save
C21_ExtractionFails ==
    \A p \in Procs :
        ~run[p].extract_ok =>
            /\ run[p].pc = "done"
            /\ run[p].result = "false"
            /\ run[p].embeddings = <<>>
            /\ run[p].addCalls = <<>>
            /\ run[p].progress = Zeroed("none")
            /\ files[run[p].doc] = run[p].filesAtStart

\* the extraction failed in a run on a document that had chunks left to embed
C21_Witness ==
    /\ ~run[1].extract_ok
    /\ run[1].result = "false"
    /\ run[1].filesAtStart.kind = "json"
    /\ Remaining(run[1].doc) # <<>>
    /\ index # EmptyBag

\* C22: get_embeddings_batch_resumable over n texts calls the callback once after
\* each 5th item and so n div 5 times, embeddings failed or not, each time with a
\* count that does not exceed the total it reports
C22_CallbackCadence ==
    ret # <<>> =>
        LET calls == ret[1].calls
            n == Len(arg.fails)
        IN  /\ Len(calls) = n \div CallbackEvery
            /\ \A c \in 1..Len(calls) :
                  /\ calls[c].item = CallbackEvery * c
                  /\ calls[c].current <= calls[c].total

\* the index holds every chunk of the PDF of d under the chunk's ID with its text
AllIndexed(d) ==
    \A k \in 1..Len(ProcessDefault(arg[d])) : Indexed(index, ProcessDefault(arg[d])[k])

\* C23: a run without failure on a complete document to which text was appended
\* embeds the chunks of the new chunk list that are not in the checkpoint, and then
\* the index holds every chunk of the new list under its ID with its current text
C23_AppendedTextIndexed ==
    (/\ ret.last.op = "resume"
     /\ ret.last.before = "appended"
     /\ ret.last.fail = 0
     /\ ~ret.last.raised)
    => AllIndexed(ret.last.doc)

\* C25: after a PDF was added whole by upload_pdf and sync_embeddings_with_checkpoint
\* was run on it, resume_pdf_embeddings finds no chunk remaining and embeds nothing
C25_SyncAfterUpload ==
    (ret.last.op = "resume" /\ ret.last.before = "synced") => ret.last.embedded = <<>>

\* C24: under any interleaving of two runs of add_documents_resumable, every ID of
\* the persisted checkpoint is in the index in every state, and the last save wins:
\* a save that ends leaves its record in the checkpoint file
C24_ConcurrentRuns ==
    /\ [](\A d \in Docs : FileIds(d) \subseteq IndexIds(index))
    /\ [][\A p \in Procs :
            (run[p].pc = "dump" /\ run'[p].pc = "done")
                => files'[run[p].doc] = Json(run[p].progress)]_vars

\* C26: after _initialize_reference_materials returns without error the index holds
\* every reference chunk ID, whatever it held before, and a second call made then
\* adds nothing
C26_ReferenceChunksPresent ==
    (ret.last.op = "init" /\ ~ret.last.raised) =>
        /\ \A k \in 1..Len(RefChunks) : RefChunks[k][1] \in IndexIds(index)
        /\ ret.last.before = "initialized" => ~ret.last.indexChanged

\* C27: VectorStore.add_documents is all-or-nothing.  When an embedding of the call
\* fails, it raises with no index call made and the index as it was; when none
\* fails, it makes one index call with the IDs of all the chunks of the call, does
\* not raise, and the index then holds every one of these IDs
C27_AllOrNothing ==
    ret.last.op = "upload" =>
        IF ret.last.fail # 0
        THEN /\ ret.last.raised
             /\ ret.last.calls = <<>>
             /\ ~ret.last.indexChanged
        ELSE /\ ~ret.last.raised
             /\ ret.last.calls = <<Ids(ret.last.embedded)>>
             /\ Range(Ids(ret.last.embedded)) \subseteq IndexIds(index)

\* an upload of two chunks or more failed at an embedding that is not the first,
\* over an index with records
C27_Witness ==
    /\ ret.last.op = "upload"
    /\ ret.last.fail > 1
    /\ Len(ret.last.embedded) >= 2
    /\ ret.last.raised
    /\ index # EmptyBag

\* both documents were processed to completion by resume runs, the last of
\* them without failure
BothComplete ==
    /\ \A d \in Docs : ret.stage[d] = "complete" /\ arg[d] # <<>>
    /\ ret.last.op = "resume"
    /\ ret.last.fail = 0

\* C30: runs on two documents that share the index do not interfere: once both are
\* processed to completion without failure, the index holds for every chunk of each
\* document a record under the chunk's ID with the chunk's text
C30_NoInterference ==
    BothComplete => \A d \in Docs : AllIndexed(d)

\* C28: for 0 <= chunk_overlap < chunk_size the start position is higher after
\* every iteration of the loop of chunk_text than before it, also when the end was
\* moved back to a sentence boundary, so the loop terminates
C28_StartIncreases ==
    ret.chunks # <<>> => ret.start > ret.prev

\* C29: when chunk_text returns, every character position of the text is in the
\* window of one chunk at least
C29_Coverage ==
    ret.returned => \A k \in 0..(Len(arg.text) - 1) : k \in ret.covered

\* a call that returned three chunks or more with an overlap, one of them cut at a
\* full stop
C29_Witness ==
    /\ ret.returned
    /\ Len(ret.chunks) >= 3
    /\ arg.chunk_overlap > 0
    /\ ret.cut

====
